---- MODULE Spec2Model ----
(***************************************************************************)
(* Model of the PDF text extraction and settlement recovery of the Iowa    *)
(* DNR scraper: scraper/pdf_extractor/pdf_extractor.py (PDFExtractor) and  *)
(* the PENALTY_PATTERNS table of scraper/config/config.py.                 *)
(*                                                                         *)
(* Texts are TLA+ strings; a character is a string of length one.  Floats  *)
(* returned by extract_settlement are represented exactly, in hundredths:  *)
(* 5000.0 is Float(500000) and 1234.56 is Float(123456).                   *)
(***************************************************************************)
EXTENDS Integers, Sequences, FiniteSets, TLC

-----------------------------------------------------------------------------
(* Characters and strings                                                  *)

Digits == {"0", "1", "2", "3", "4", "5", "6", "7", "8", "9"}

\* \s of Python's re, over the characters the model's texts use
WhiteSpace == {" ", "\n", "\t"}

Ch(s, i) == IF i >= 1 /\ i <= Len(s) THEN SubSeq(s, i, i) ELSE ""

\* the folding of re.IGNORECASE, over ASCII
LowerOf ==
    [A |-> "a", B |-> "b", C |-> "c", D |-> "d", E |-> "e", F |-> "f",
     G |-> "g", H |-> "h", I |-> "i", J |-> "j", K |-> "k", L |-> "l",
     M |-> "m", N |-> "n", O |-> "o", P |-> "p", Q |-> "q", R |-> "r",
     S |-> "s", T |-> "t", U |-> "u", V |-> "v", W |-> "w", X |-> "x",
     Y |-> "y", Z |-> "z"]

LowerCh(c) == IF c \in DOMAIN LowerOf THEN LowerOf[c] ELSE c

CharsOf(s) == {Ch(s, j) : j \in 1..Len(s)}

RECURSIVE MapRange(_, _, _, _)
\* the string made of f[c] for the characters c of s at positions lo..hi
\* (halving, so that long texts do not nest deeply)
MapRange(f, s, lo, hi) ==
    IF lo > hi THEN ""
    ELSE IF lo = hi THEN f[Ch(s, lo)]
    ELSE LET mid == (lo + hi) \div 2
         IN  MapRange(f, s, lo, mid) \o MapRange(f, s, mid + 1, hi)

\* s with every character c replaced by f[c]
MapStr(f, s) == MapRange(f, s, 1, Len(s))

LowerStr(s) == MapStr([c \in CharsOf(s) |-> LowerCh(c)], s)

DigitVal(c) ==
    CASE c = "0" -> 0 [] c = "1" -> 1 [] c = "2" -> 2 [] c = "3" -> 3
      [] c = "4" -> 4 [] c = "5" -> 5 [] c = "6" -> 6 [] c = "7" -> 7
      [] c = "8" -> 8 [] c = "9" -> 9

RECURSIVE FirstOutside(_, _, _, _)
\* the first position of lo..hi whose character is not in set, hi + 1 when
\* there is none (halving, so that long runs do not nest deeply)
FirstOutside(s, lo, hi, set) ==
    IF lo > hi THEN hi + 1
    ELSE IF lo = hi THEN (IF Ch(s, lo) \in set THEN hi + 1 ELSE lo)
    ELSE LET mid == (lo + hi) \div 2
             l   == FirstOutside(s, lo, mid, set)
         IN  IF l <= mid THEN l ELSE FirstOutside(s, mid + 1, hi, set)

RECURSIVE LastOutside(_, _, _, _)
\* the last position of lo..hi whose character is not in set, lo - 1 when
\* there is none
LastOutside(s, lo, hi, set) ==
    IF lo > hi THEN lo - 1
    ELSE IF lo = hi THEN (IF Ch(s, lo) \in set THEN lo - 1 ELSE lo)
    ELSE LET mid == (lo + hi) \div 2
             r   == LastOutside(s, mid + 1, hi, set)
         IN  IF r > mid THEN r ELSE LastOutside(s, lo, mid, set)

\* the number of consecutive characters of s from position p on that are in set
RunLen(s, p, set) == FirstOutside(s, p, Len(s), set) - p

\* the number of consecutive characters of s from position p back that are in set
RunLenBack(s, p, set) == p - LastOutside(s, 1, p, set)

\* str.strip(): s without its leading and trailing whitespace
strip(s) ==
    LET lead  == RunLen(s, 1, WhiteSpace)
        trail == RunLenBack(s, Len(s), WhiteSpace)
    IN  IF lead = Len(s) THEN "" ELSE SubSeq(s, lead + 1, Len(s) - trail)

\* str.replace(old, new) for a one-character old
replace(s, old, new) ==
    MapStr([c \in CharsOf(s) |-> IF c = old THEN new ELSE c], s)

-----------------------------------------------------------------------------
(* Return values                                                           *)

None == [tag |-> "None"]
Float(h) == [tag |-> "float", hundredths |-> h]
ValueError == [tag |-> "ValueError"]
TextData(t) == [tag |-> "dict", text |-> t]
Str(t) == [tag |-> "str", s |-> t]
Pending == [tag |-> "pending"]

-----------------------------------------------------------------------------
(* Regular expressions of PENALTY_PATTERNS                                 *)
(* A pattern is a sequence of elements, matched by backtracking in the     *)
(* order Python's re tries the alternatives.  Matching is done on the      *)
(* lower-cased text (re.IGNORECASE), so a class holding S holds "s".       *)

Lit(w)    == [t |-> "lit", s |-> w, cls |-> {}]        \* literal text
OptLit(w) == [t |-> "optlit", s |-> w, cls |-> {}]     \* (?:w)?
Ws1       == [t |-> "ws1", s |-> "", cls |-> {}]       \* [\s\n]+
Ws0       == [t |-> "ws0", s |-> "", cls |-> {}]       \* \s*
Lazy      == [t |-> "lazy", s |-> "", cls |-> {}]      \* .*?
Dollar    == [t |-> "dollar", s |-> "", cls |-> {}]    \* \$?
Cap(c)    == [t |-> "cap", s |-> "", cls |-> c]        \* ([c]+(?:\.\d{2})?)

\* [\d,]
NumCls == Digits \cup {","}
\* [S5\d,] under re.IGNORECASE
SNumCls == Digits \cup {",", "s"}

Num == <<Dollar, Cap(NumCls)>>
SNum == <<Dollar, Cap(SNumCls)>>

PENALTY_PATTERNS ==
    << <<Lit("administrative penalty of ")>> \o Num,
       <<Lit("pay an administrative penalty of ")>> \o Num,
       <<Lit("pay a penalty of ")>> \o Num,
       <<Lit("penalty of ")>> \o Num,
       <<Lit("pay ")>> \o Num,
       <<Lit("shall pay ")>> \o Num,
       <<Lit("in the amount of ")>> \o Num,
       <<Lit("assessed a penalty of ")>> \o Num,
       <<Lit("civil penalty of ")>> \o Num,
       <<Lit("total penalty of ")>> \o Num,
       <<Lit("monetary penalty of ")>> \o Num,
       <<Lit("penalties totaling ")>> \o Num,
       <<Lit("stipulated penalty of ")>> \o Num,
       <<Lit("agrees to pay ")>> \o Num,
       <<Lit("shall be assessed ")>> \o Num,
       <<Lit("penalty in the amount of ")>> \o Num,
       <<Lit("pay a ")>> \o Num,
       <<Lit("administrative penalty in the amount of ")>> \o Num,
       <<Lit("administrative"), Ws1, Lit("penalty"), Ws1, Lit("of"), Ws1>> \o Num,
       <<Lit("pay"), Ws1, Lit("an"), Ws1, Lit("administrative"), Ws1,
         Lit("penalty"), Ws1, Lit("of"), Ws1>> \o Num,
       <<Lit("shall pay a ")>> \o SNum,
       <<Lit("pay a ")>> \o SNum,
       <<Lit("pay a ")>> \o SNum \o <<Ws0, OptLit("civil"), Ws0, Lit("penalty")>>,
       <<Lit("shall pay"), Lazy>> \o SNum >>

\* positions p+hi, p+hi-1, ..., p+lo: a greedy repetition giving back
Down(p, hi, lo) == [j \in 1..(hi - lo + 1) |-> p + hi - (j - 1)]
\* positions p, p+1, ..., p+hi: a lazy repetition taking more
Up(p, hi) == [j \in 1..(hi + 1) |-> p + (j - 1)]

LitAt(lt, p, w) == p + Len(w) - 1 <= Len(lt) /\ SubSeq(lt, p, p + Len(w) - 1) = w

\* (?:\.\d{2})? at position q: TRUE when the cents are there
CentsAt(lt, q) ==
    Ch(lt, q) = "." /\ Ch(lt, q + 1) \in Digits /\ Ch(lt, q + 2) \in Digits

RECURSIVE CapEnds(_, _, _)
\* the positions after the capture group started at p, in backtracking order:
\* the class run of n characters, each time with the cents first, then without
CapEnds(lt, p, n) ==
    IF n = 0 THEN <<>>
    ELSE (IF CentsAt(lt, p + n) THEN <<p + n + 3>> ELSE <<>>)
         \o <<p + n>> \o CapEnds(lt, p, n - 1)

\* the positions after element e matched at position p of lt, in the order
\* the backtracking matcher tries them
Candidates(e, lt, p) ==
    CASE e.t = "lit" -> IF LitAt(lt, p, e.s) THEN <<p + Len(e.s)>> ELSE <<>>
      [] e.t = "optlit" ->
            IF LitAt(lt, p, e.s) THEN <<p + Len(e.s), p>> ELSE <<p>>
      [] e.t = "ws1" -> Down(p, RunLen(lt, p, WhiteSpace), 1)
      [] e.t = "ws0" -> Down(p, RunLen(lt, p, WhiteSpace), 0)
      [] e.t = "lazy" -> Up(p, RunLen(lt, p, CharsOf(lt) \ {"\n"}))
      [] e.t = "dollar" -> IF Ch(lt, p) = "$" THEN <<p + 1, p>> ELSE <<p>>
      [] e.t = "cap" -> CapEnds(lt, p, RunLen(lt, p, e.cls))

NoMatch == [ok |-> FALSE, from |-> 0, to |-> 0]

RECURSIVE MatchHere(_, _, _, _)
RECURSIVE TryEach(_, _, _, _, _)
\* elements k.. of pat matched at position p: the capture group's span
MatchHere(pat, k, lt, p) ==
    IF k > Len(pat) THEN [ok |-> TRUE, from |-> 0, to |-> 0]
    ELSE TryEach(pat, k, lt, Candidates(pat[k], lt, p), p)

TryEach(pat, k, lt, cands, p) ==
    IF cands = <<>> THEN NoMatch
    ELSE LET r == MatchHere(pat, k + 1, lt, Head(cands))
         IN  IF r.ok
             THEN IF pat[k].t = "cap"
                  THEN [ok |-> TRUE, from |-> p, to |-> Head(cands) - 1]
                  ELSE r
             ELSE TryEach(pat, k, lt, Tail(cands), p)

\* the match at the leftmost position from p on where the pattern matches
SearchFrom(pat, lt, p) ==
    LET starts == {q \in p..(Len(lt) + 1) : MatchHere(pat, 1, lt, q).ok}
    IN  IF starts = {} THEN NoMatch
        ELSE MatchHere(pat, 1, lt, CHOOSE q \in starts : \A r \in starts : q <= r)

\* re.search(pattern, text, re.IGNORECASE): the leftmost match
re_search(pat, text) == SearchFrom(pat, LowerStr(text), 1)

\* match.group(1)
group1(m, text) == SubSeq(text, m.from, m.to)

-----------------------------------------------------------------------------
(* Parsing the captured numeral                                            *)

RECURSIVE IntVal(_, _, _)
IntVal(s, i, acc) ==
    IF i > Len(s) THEN acc ELSE IntVal(s, i + 1, 10 * acc + DigitVal(Ch(s, i)))

\* float(s) for a string of digits and periods: ValueError unless s is
\* digits with at most one period and at least one digit.  The patterns let
\* a period in only with two digits after it, so hundredths are exact.
float(s) ==
    LET dots == {j \in 1..Len(s) : Ch(s, j) = "."}
        dot  == IF dots = {} THEN Len(s) + 1 ELSE CHOOSE j \in dots : TRUE
        ip   == SubSeq(s, 1, dot - 1)
        fp   == SubSeq(s, dot + 1, Len(s))
        fv   == IF Len(fp) = 0 THEN 0
                ELSE IF Len(fp) = 1 THEN 10 * IntVal(fp, 1, 0)
                ELSE IntVal(SubSeq(fp, 1, 2), 1, 0)
    IN  IF Cardinality(dots) > 1 \/ Len(ip) + Len(fp) = 0
            \/ \E j \in 1..Len(s) : Ch(s, j) \notin Digits \cup {"."}
        THEN ValueError
        ELSE Float(100 * IntVal(ip, 1, 0) + fv)

\* re.sub(r"[^\d.,]", "", s)
KeepNumeric(s) ==
    MapStr([c \in CharsOf(s) |-> IF c \in Digits \cup {".", ","} THEN c ELSE ""], s)

\* the body of the try block of extract_settlement: the value cleanup of the
\* captured string and its parse
ParseAmount(amount_str) ==
    float(replace(KeepNumeric(replace(replace(amount_str, "S", "5"), "s", "5")),
                  ",", ""))

RECURSIVE SettleFromReversed(_, _)
\* the loop with the table walked from its last pattern to its first
SettleFromReversed(text, k) ==
    IF k > Len(PENALTY_PATTERNS) THEN None
    ELSE LET match == re_search(PENALTY_PATTERNS[Len(PENALTY_PATTERNS) + 1 - k], text)
         IN  IF match.ok
             THEN LET amount == ParseAmount(strip(group1(match, text)))
                  IN  IF amount = ValueError THEN SettleFromReversed(text, k + 1)
                      ELSE amount
             ELSE SettleFromReversed(text, k + 1)

RECURSIVE SettleFromAbort(_, _)
\* the loop giving up at the first numeral that does not parse
SettleFromAbort(text, k) ==
    IF k > Len(PENALTY_PATTERNS) THEN None
    ELSE LET match == re_search(PENALTY_PATTERNS[k], text)
         IN  IF match.ok
             THEN LET amount == ParseAmount(strip(group1(match, text)))
                  IN  IF amount = ValueError THEN None ELSE amount
             ELSE SettleFromAbort(text, k + 1)

RECURSIVE SettleFrom(_, _)
\* the for loop of extract_settlement from pattern k on
SettleFrom(text, k) ==
    IF k > Len(PENALTY_PATTERNS) THEN None
    ELSE LET match == re_search(PENALTY_PATTERNS[k], text)
         IN  IF match.ok
             THEN LET amount == ParseAmount(strip(group1(match, text)))
                  IN  IF amount = ValueError THEN SettleFrom(text, k + 1)
                      ELSE amount
             ELSE SettleFrom(text, k + 1)

extract_settlement(text_data) ==
    IF text_data = None THEN None ELSE SettleFrom(text_data.text, 1)

-----------------------------------------------------------------------------
(* _clean_ocr_text                                                         *)

\* re.sub of one fix: every character old that is not preceded by a character
\* of behind and not followed by a character of ahead becomes new
Fix(text, old, new, behind, ahead) ==
    LET RECURSIVE Sub(_, _)
        Sub(lo, hi) ==
            IF lo > hi THEN ""
            ELSE IF lo = hi
            THEN IF /\ Ch(text, lo) = old
                    /\ Ch(text, lo - 1) \notin behind
                    /\ Ch(text, lo + 1) \notin ahead
                 THEN new ELSE Ch(text, lo)
            ELSE LET mid == (lo + hi) \div 2
                 IN  Sub(lo, mid) \o Sub(mid + 1, hi)
    IN  Sub(1, Len(text))

clean_ocr_text(text) ==
    LET t1 == Fix(text, "0", "O", Digits, Digits)
        t2 == Fix(t1, "1", "I", Digits, Digits)
        t3 == Fix(t2, "$", "S", {"$"}, Digits)
        t4 == Fix(t3, "8", "B", Digits, Digits)
    IN  Fix(t4, "5", "S", Digits, Digits)


-----------------------------------------------------------------------------
(* Bounds and inputs of extract_from_pdf                                   *)

\* the most pages a document has
MaxPages == 2

RECURSIVE Filler(_, _)
\* n characters c
Filler(c, n) ==
    IF n = 0 THEN ""
    ELSE IF n = 1 THEN c
    ELSE Filler(c, n \div 2) \o Filler(c, n - n \div 2)

\* page texts around the 200-character gate; each holds an amount the
\* cleanup pass would rewrite, so cleaned and uncleaned text differ
Page100 == "penalty of $5,000 " \o Filler("x", 82)
Page99  == "shall pay $1,000 " \o Filler("y", 82)
Page200 == " " \o "pay $8 " \o Filler("z", 193) \o "\n"
Page201 == "pay $5 " \o Filler("w", 194)
PageTexts == {Page100, Page99, Page200, Page201, " \n"}

PageError == [tag |-> "raises"]

\* what page.extract_text() gives: a text, "" or None, or an exception
PlumberPages == {Str(t) : t \in PageTexts} \cup {Str(""), None, PageError}
\* what recognition of one page image gives: a text, or an exception
OcrPages == {Str(t) : t \in PageTexts} \cup {Str(""), PageError}

SeqsUpTo(S, n) == UNION {[1..m -> S] : m \in 0..n}

\* a document as pdfplumber sees it: pdfplumber.open raises on it, or it has
\* pages
BadPdf == [opens |-> FALSE, pages |-> <<>>]
PdfInputs ==
    {BadPdf} \cup {[opens |-> TRUE, pages |-> ps] : ps \in SeqsUpTo(PlumberPages, MaxPages)}

-----------------------------------------------------------------------------
(* _extract_with_pdfplumber                                                *)

RECURSIVE PlumberText(_, _)
\* the text accumulated by the page loop from page i on
PlumberText(pages, i) ==
    IF i > Len(pages) THEN ""
    ELSE (IF pages[i] = None \/ pages[i].s = "" THEN "" ELSE pages[i].s \o "\n")
         \o PlumberText(pages, i + 1)

PlumberRaises(pdf) ==
    ~pdf.opens \/ \E i \in 1..Len(pdf.pages) : pdf.pages[i] = PageError

extract_with_pdfplumber(pdf) ==
    IF PlumberRaises(pdf) THEN None ELSE Str(strip(PlumberText(pdf.pages, 1)))

-----------------------------------------------------------------------------
(* extract_from_pdf and _extract_with_ocr as a state machine               *)

VARIABLES
    pc,               \* position in extract_from_pdf / _extract_with_ocr
    fetches,          \* requests.get calls made
    pdfplumber_text,  \* result of _extract_with_pdfplumber
    ocr_calls,        \* calls of _extract_with_ocr
    raster_calls,     \* calls of convert_from_path
    disk,             \* temporary files that exist on disk
    images,           \* number of page images convert_from_path returned
    page_i,           \* pages of the OCR loop already handled
    page_out,         \* what recognition gave for each page handled
    pages_text,       \* list pages_text of _extract_with_ocr
    ocr_exit,         \* how _extract_with_ocr leaves its inner try block
    ocr_text,         \* result of _extract_with_ocr
    result,           \* return value of extract_from_pdf
    raised,           \* an exception left extract_from_pdf
    failed,           \* the sub-steps that raised (the logger.error sites)
    text_data,        \* argument of extract_settlement / _clean_ocr_text
    settlement,       \* return value of extract_settlement
    cleaned,          \* return value of _clean_ocr_text
    wrapped_data,     \* text_data with one space of its phrase re-wrapped
    wrapped_settlement  \* return value of extract_settlement for it

ocr_vars == <<ocr_calls, raster_calls, disk, images, page_i, page_out,
              pages_text, ocr_exit, ocr_text>>
settle_vars == <<text_data, settlement, cleaned, wrapped_data, wrapped_settlement>>
pipeline_vars == <<pc, fetches, pdfplumber_text, ocr_vars, result, raised, failed>>
vars == <<pc, fetches, pdfplumber_text, ocr_vars, result, raised, failed,
          settle_vars>>

\* the threshold of lines 63 and 78
MinChars == 200

\* the gate one character too strict
MeaningfulOffByOne(t) == t # None /\ t.s # "" /\ Len(strip(t.s)) > MinChars + 1

\* "t and len(t.strip()) > 200" for an optional string t
Meaningful(t) == t # None /\ t.s # "" /\ Len(strip(t.s)) > MinChars

\* the handlers without the except clause around the body of extract_from_pdf
HandlerNoOuter(site) ==
    CASE site = "get" -> "caller"
      [] site = "tmpfile" -> "_extract_with_ocr"
      [] site = "write" -> "_extract_with_ocr"
      [] site = "convert" -> "_extract_with_ocr"
      [] site = "page" -> "page loop"
      [] site = "unlink" -> "finally"
      [] site = "_extract_with_ocr" -> "caller"

\* a page's exception caught by the outer except clause instead of the
\* page loop's own
HandlerPageAborts(site) ==
    CASE site = "get" -> "extract_from_pdf"
      [] site = "tmpfile" -> "_extract_with_ocr"
      [] site = "write" -> "_extract_with_ocr"
      [] site = "convert" -> "_extract_with_ocr"
      [] site = "page" -> "_extract_with_ocr"
      [] site = "unlink" -> "finally"
      [] site = "_extract_with_ocr" -> "extract_from_pdf"

\* the except clause that catches an exception raised at a site
Handler(site) ==
    CASE site = "get" -> "extract_from_pdf"
      [] site = "tmpfile" -> "_extract_with_ocr"
      [] site = "write" -> "_extract_with_ocr"
      [] site = "convert" -> "_extract_with_ocr"
      [] site = "page" -> "page loop"
      [] site = "unlink" -> "finally"
      [] site = "_extract_with_ocr" -> "extract_from_pdf"

\* the file NamedTemporaryFile creates
TmpPdf == "tmp.pdf"

Init ==
    /\ pc = "call"
    /\ fetches = 0
    /\ pdfplumber_text = Pending
    /\ ocr_calls = 0
    /\ raster_calls = 0
    /\ disk = {}
    /\ images = 0
    /\ page_i = 0
    /\ page_out = <<>>
    /\ pages_text = <<>>
    /\ ocr_exit = "none"
    /\ ocr_text = Pending
    /\ result = Pending
    /\ raised = FALSE
    /\ failed = {}
    /\ text_data = None
    /\ settlement = Pending
    /\ cleaned = Pending
    /\ wrapped_data = None
    /\ wrapped_settlement = Pending

\* an exception raised at site inside extract_from_pdf, outside the helpers
RaiseToTop(site) ==
    /\ pc' = "done"
    /\ failed' = failed \cup {site}
    /\ IF Handler(site) = "extract_from_pdf"
       THEN result' = None /\ raised' = FALSE
       ELSE result' = result /\ raised' = TRUE

\* line 55: the GET succeeds
GetOk ==
    /\ pc = "call"
    /\ fetches' = fetches + 1
    /\ pc' = "pdfplumber"
    /\ UNCHANGED <<pdfplumber_text, ocr_vars, result, raised, failed, settle_vars>>

\* line 55: the GET raises
GetRaises ==
    /\ pc = "call"
    /\ fetches' = fetches + 1
    /\ RaiseToTop("get")
    /\ UNCHANGED <<pdfplumber_text, ocr_vars, settle_vars>>

\* line 59: _extract_with_pdfplumber, which catches its own exceptions
Pdfplumber ==
    /\ pc = "pdfplumber"
    /\ \E pdf \in PdfInputs :
         /\ pdfplumber_text' = extract_with_pdfplumber(pdf)
         /\ failed' = IF PlumberRaises(pdf) THEN failed \cup {"pdfplumber"} ELSE failed
    /\ pc' = "gate"
    /\ UNCHANGED <<fetches, ocr_vars, result, raised, settle_vars>>

\* lines 63-65: enough structured text is returned as it is
GateAccept ==
    /\ pc = "gate"
    /\ Meaningful(pdfplumber_text)
    /\ result' = TextData(pdfplumber_text.s)
    /\ pc' = "done"
    /\ UNCHANGED <<fetches, pdfplumber_text, ocr_vars, raised, failed, settle_vars>>

\* the fallback giving up, without OCR, when structured extraction failed
GateFallbackSkipsOcr ==
    /\ pc = "gate"
    /\ ~Meaningful(pdfplumber_text)
    /\ IF pdfplumber_text = None
       THEN result' = None /\ pc' = "done" /\ ocr_calls' = ocr_calls
       ELSE result' = result /\ pc' = "ocr_tmpfile" /\ ocr_calls' = ocr_calls + 1
    /\ UNCHANGED <<fetches, pdfplumber_text, raster_calls, disk, images, page_i,
                   page_out, pages_text, ocr_exit, ocr_text, raised, failed,
                   settle_vars>>

\* lines 67-76: otherwise _extract_with_ocr is called
GateFallback ==
    /\ pc = "gate"
    /\ ~Meaningful(pdfplumber_text)
    /\ ocr_calls' = ocr_calls + 1
    /\ pc' = "ocr_tmpfile"
    /\ UNCHANGED <<fetches, pdfplumber_text, raster_calls, disk, images, page_i,
                   page_out, pages_text, ocr_exit, ocr_text, result, raised,
                   failed, settle_vars>>


\* how extract_from_pdf goes on when _extract_with_ocr has returned value v
OcrReturns(v) ==
    /\ ocr_text' = v
    /\ pc' = "ocr_gate"
    /\ UNCHANGED <<result, raised>>

\* an exception reaching the outer except clause of _extract_with_ocr (lines
\* 181-183), which returns None
OcrCatch(site) ==
    IF Handler(site) = "_extract_with_ocr"
    THEN OcrReturns(None)
    ELSE /\ ocr_text' = ocr_text
         /\ pc' = "done"
         /\ IF Handler("_extract_with_ocr") = "extract_from_pdf"
            THEN result' = None /\ raised' = FALSE
            ELSE result' = result /\ raised' = TRUE

\* line 124: NamedTemporaryFile(delete=False) creates the file
OcrTmpFileOk ==
    /\ pc = "ocr_tmpfile"
    /\ disk' = disk \cup {TmpPdf}
    /\ pc' = "ocr_write"
    /\ UNCHANGED <<fetches, pdfplumber_text, ocr_calls, raster_calls, images,
                   page_i, page_out, pages_text, ocr_exit, ocr_text, result,
                   raised, failed, settle_vars>>

\* line 124: NamedTemporaryFile raises, no file exists
OcrTmpFileRaises ==
    /\ pc = "ocr_tmpfile"
    /\ failed' = failed \cup {"tmpfile"}
    /\ OcrCatch("tmpfile")
    /\ UNCHANGED <<fetches, pdfplumber_text, ocr_calls, raster_calls, disk, images,
                   page_i, page_out, pages_text, ocr_exit, settle_vars>>

\* lines 125-126: the bytes are written, the with block closes the file
OcrWriteOk ==
    /\ pc = "ocr_write"
    /\ pc' = "ocr_convert"
    /\ UNCHANGED <<fetches, pdfplumber_text, ocr_vars, result, raised, failed,
                   settle_vars>>

\* line 125: the write raises; the with block closes the file, which stays on
\* disk (delete=False), and the inner try/finally has not been entered
OcrWriteRaises ==
    /\ pc = "ocr_write"
    /\ failed' = failed \cup {"write"}
    /\ OcrCatch("write")
    /\ UNCHANGED <<fetches, pdfplumber_text, ocr_calls, raster_calls, disk, images,
                   page_i, page_out, pages_text, ocr_exit, settle_vars>>

\* line 130: convert_from_path returns the page images
OcrConvertOk ==
    /\ pc = "ocr_convert"
    /\ raster_calls' = raster_calls + 1
    /\ \E n \in 0..MaxPages : images' = n
    /\ page_i' = 0
    /\ pages_text' = <<>>
    /\ pc' = "ocr_page"
    /\ UNCHANGED <<fetches, pdfplumber_text, ocr_calls, disk, page_out, ocr_exit,
                   ocr_text, result, raised, failed, settle_vars>>

\* line 130: convert_from_path raises, control goes to the finally block
OcrConvertRaises ==
    /\ pc = "ocr_convert"
    /\ raster_calls' = raster_calls + 1
    /\ failed' = failed \cup {"convert"}
    /\ ocr_exit' = "raise"
    /\ pc' = "ocr_finally"
    /\ UNCHANGED <<fetches, pdfplumber_text, ocr_calls, disk, images, page_i,
                   page_out, pages_text, ocr_text, result, raised, settle_vars>>

\* lines 133-158: one page is recognised; its text is kept unless blank
OcrPageText ==
    /\ pc = "ocr_page"
    /\ page_i < images
    /\ \E out \in OcrPages \ {PageError} :
         /\ page_out' = Append(page_out, out)
         /\ pages_text' = IF strip(out.s) # "" THEN Append(pages_text, out.s)
                          ELSE pages_text
    /\ page_i' = page_i + 1
    /\ UNCHANGED <<pc, fetches, pdfplumber_text, ocr_calls, raster_calls, disk,
                   images, ocr_exit, ocr_text, result, raised, failed, settle_vars>>

\* lines 160-162: the enhancement or recognition of one page raises
OcrPageRaises ==
    /\ pc = "ocr_page"
    /\ page_i < images
    /\ page_out' = Append(page_out, PageError)
    /\ page_i' = page_i + 1
    /\ failed' = failed \cup {"page"}
    /\ IF Handler("page") = "page loop"
       THEN UNCHANGED <<pc, ocr_exit>>
       ELSE ocr_exit' = "raise" /\ pc' = "ocr_finally"
    /\ UNCHANGED <<fetches, pdfplumber_text, ocr_calls, raster_calls, disk, images,
                   pages_text, ocr_text, result, raised, settle_vars>>

\* lines 165-173: the loop is over, the function returns through finally
OcrLoopEnd ==
    /\ pc = "ocr_page"
    /\ page_i = images
    /\ ocr_exit' = "return"
    /\ pc' = "ocr_finally"
    /\ UNCHANGED <<fetches, pdfplumber_text, ocr_calls, raster_calls, disk, images,
                   page_i, page_out, pages_text, ocr_text, result, raised, failed,
                   settle_vars>>

RECURSIVE join(_, _)
\* sep.join(list)
join(sep, list) ==
    IF list = <<>> THEN ""
    ELSE IF Len(list) = 1 THEN list[1]
    ELSE list[1] \o sep \o join(sep, Tail(list))

\* lines 165-173: the value the try block returns
OcrValue(list) == IF list # <<>> THEN Str(join("\n\n", list)) ELSE None

\* how _extract_with_ocr goes on after its finally block
OcrLeave ==
    IF ocr_exit = "return" THEN OcrReturns(OcrValue(pages_text))
    ELSE OcrCatch("convert")

\* lines 175-177: os.unlink removes the temporary file
OcrFinallyOk ==
    /\ pc = "ocr_finally"
    /\ disk' = disk \ {TmpPdf}
    /\ OcrLeave
    /\ UNCHANGED <<fetches, pdfplumber_text, ocr_calls, raster_calls, images,
                   page_i, page_out, pages_text, ocr_exit, failed, settle_vars>>

\* lines 178-179: os.unlink raises, which is logged; the file stays
OcrFinallyUnlinkRaises ==
    /\ pc = "ocr_finally"
    /\ failed' = failed \cup {"unlink"}
    /\ OcrLeave
    /\ UNCHANGED <<fetches, pdfplumber_text, ocr_calls, raster_calls, disk, images,
                   page_i, page_out, pages_text, ocr_exit, settle_vars>>

\* the OCR gate measuring the text without trimming it
OcrResultUntrimmed(t) ==
    IF t # None /\ t.s # "" /\ Len(t.s) > MinChars
    THEN TextData(clean_ocr_text(t.s)) ELSE None

\* lines 78-85: the value extract_from_pdf returns for OCR text t
OcrResult(t) ==
    IF Meaningful(t) THEN TextData(clean_ocr_text(t.s)) ELSE None

OcrGate ==
    /\ pc = "ocr_gate"
    /\ result' = OcrResult(ocr_text)
    /\ pc' = "done"
    /\ UNCHANGED <<fetches, pdfplumber_text, ocr_vars, raised, failed, settle_vars>>

Next ==
    \/ GetOk \/ GetRaises \/ Pdfplumber \/ GateAccept \/ GateFallback
    \/ OcrTmpFileOk \/ OcrTmpFileRaises \/ OcrWriteOk \/ OcrWriteRaises
    \/ OcrConvertOk \/ OcrConvertRaises \/ OcrPageText \/ OcrPageRaises
    \/ OcrLoopEnd \/ OcrFinallyOk \/ OcrFinallyUnlinkRaises \/ OcrGate

Spec == Init /\ [][Next]_vars


-----------------------------------------------------------------------------
(* extract_settlement and _clean_ocr_text applied to texts                 *)

\* the most clauses a text is made of
MaxClauses == 2

ClauseAdmin   == "administrative penalty of $500"
ClauseGeneric == "shall pay the fee of $900"
ClauseOcr     == "shall pay a S5,000 civil penalty"
ClauseCommas  == "penalty of ,"
ClauseProse   == "agrees to pay a sum"
ClauseWrapped == "Administrative\nPenalty of $1,234.56"

Clauses ==
    {ClauseAdmin, ClauseGeneric, ClauseOcr, ClauseCommas, ClauseProse, ClauseWrapped}

SettleTexts == {join(" ", cs) : cs \in SeqsUpTo(Clauses, MaxClauses)}

\* the arguments extract_settlement is called with: None or {"text": t}
SettleInputs == {None} \cup {TextData(t) : t \in SettleTexts}

InitSettle ==
    /\ pc = "idle"
    /\ fetches = 0
    /\ pdfplumber_text = Pending
    /\ ocr_calls = 0
    /\ raster_calls = 0
    /\ disk = {}
    /\ images = 0
    /\ page_i = 0
    /\ page_out = <<>>
    /\ pages_text = <<>>
    /\ ocr_exit = "none"
    /\ ocr_text = Pending
    /\ result = Pending
    /\ raised = FALSE
    /\ failed = {}
    /\ text_data \in SettleInputs
    /\ settlement = Pending
    /\ cleaned = Pending
    /\ wrapped_data = None
    /\ wrapped_settlement = Pending

\* lines 23-50: extract_settlement(text_data)
SettleCall ==
    /\ pc = "idle"
    /\ settlement = Pending
    /\ settlement' = extract_settlement(text_data)
    /\ UNCHANGED <<pipeline_vars, text_data, cleaned, wrapped_data, wrapped_settlement>>

\* lines 91-110: _clean_ocr_text(text)
CleanCall ==
    /\ pc = "idle"
    /\ cleaned = Pending
    /\ text_data # None
    /\ cleaned' = Str(clean_ocr_text(text_data.text))
    /\ UNCHANGED <<pipeline_vars, text_data, settlement, wrapped_data, wrapped_settlement>>

NextSettle == SettleCall \/ CleanCall

SpecSettle == InitSettle /\ [][NextSettle]_vars

-----------------------------------------------------------------------------
(* extract_settlement on a phrase and on the same phrase re-wrapped        *)

\* the phrase a pattern anchors on: its literal text up to the amount, a
\* [\s\n]+ written as the single space it stands for
RECURSIVE PhraseFrom(_, _)
PhraseFrom(pat, k) ==
    IF k > Len(pat) \/ pat[k].t \in {"dollar", "lazy"} THEN ""
    ELSE (IF pat[k].t = "ws1" THEN " " ELSE pat[k].s) \o PhraseFrom(pat, k + 1)

Phrases ==
    {strip(PhraseFrom(PENALTY_PATTERNS[k], 1)) : k \in 1..Len(PENALTY_PATTERNS)}

\* a document sentence: the phrase followed by an amount
PhraseAmount == "$750"
PhraseText(ph) == ph \o " " \o PhraseAmount

\* longest run of whitespace a wrapped phrase has between two words
MaxGap == 2

\* what a single space becomes when the document wraps or pads: a newline
\* or several whitespace characters
GapChars == {" ", "\n"}
Gaps == {join("", g) : g \in SeqsUpTo(GapChars, MaxGap)} \ {"", " "}

\* the positions of the spaces between two words of the phrase
WordGaps(ph) == {i \in 1..Len(ph) : SubSeq(ph, i, i) = " "}

\* text with its character i replaced by gap
Rewrap(text, i, gap) ==
    SubSeq(text, 1, i - 1) \o gap \o SubSeq(text, i + 1, Len(text))

InitWrap ==
    /\ pc = "idle"
    /\ fetches = 0
    /\ pdfplumber_text = Pending
    /\ ocr_calls = 0
    /\ raster_calls = 0
    /\ disk = {}
    /\ images = 0
    /\ page_i = 0
    /\ page_out = <<>>
    /\ pages_text = <<>>
    /\ ocr_exit = "none"
    /\ ocr_text = Pending
    /\ result = Pending
    /\ raised = FALSE
    /\ failed = {}
    /\ \E ph \in Phrases :
         /\ text_data = TextData(PhraseText(ph))
         /\ \E i \in WordGaps(ph), gap \in Gaps :
              wrapped_data = TextData(Rewrap(PhraseText(ph), i, gap))
    /\ settlement = Pending
    /\ cleaned = Pending
    /\ wrapped_settlement = Pending

\* lines 23-50: extract_settlement(text_data) for the re-wrapped text
SettleWrappedCall ==
    /\ pc = "idle"
    /\ wrapped_data # None
    /\ wrapped_settlement = Pending
    /\ wrapped_settlement' = extract_settlement(wrapped_data)
    /\ UNCHANGED <<pipeline_vars, text_data, settlement, cleaned, wrapped_data>>

NextWrap == SettleCall \/ SettleWrappedCall

SpecWrap == InitWrap /\ [][NextWrap]_vars


-----------------------------------------------------------------------------
(* Claims about extract_settlement and _clean_ocr_text (SpecSettle)        *)

Settled == settlement # Pending
TextOf(td) == IF td = None THEN "" ELSE td.text

\* C1: for the text "shall pay a S5,000 civil penalty" extract_settlement
\* returns 5000.0
C1_OcrDollarAmount ==
    (text_data = TextData(ClauseOcr) /\ Settled) => settlement = Float(500000)

\* what the first match of pattern k gives on text: a float, ValueError, or
\* NoMatch
FirstMatchAmount(k, text) ==
    LET m == re_search(PENALTY_PATTERNS[k], text)
    IN  IF m.ok THEN ParseAmount(strip(group1(m, text))) ELSE NoMatch

PatternIds == 1..Len(PENALTY_PATTERNS)
Min(S) == CHOOSE k \in S : \A j \in S : k <= j

\* the amount of the lowest-indexed pattern of ks whose first match parses
LowestParsed(ks, text) ==
    LET ok == {k \in ks : FirstMatchAmount(k, text) \notin {NoMatch, ValueError}}
    IN  IF ok = {} THEN None ELSE FirstMatchAmount(Min(ok), text)

\* C6: the returned amount is the one parsed from the first match of the
\* lowest-indexed pattern that yields a parsable numeral, wherever in the text
\* the patterns match; with "administrative penalty of $500" and a catch-all
\* "shall pay ... $900" in either order, 500.0 is returned
C6_PatternPriority ==
    (Settled /\ text_data # None) =>
        /\ settlement = LowestParsed(PatternIds, text_data.text)
        /\ text_data.text \in {ClauseAdmin \o " " \o ClauseGeneric,
                               ClauseGeneric \o " " \o ClauseAdmin}
              => settlement = Float(50000)

C6_Witness ==
    /\ text_data = TextData(ClauseGeneric \o " " \o ClauseAdmin)
    /\ settlement = Float(50000)

\* C7: when a pattern matches structurally but its numeral does not parse,
\* extract_settlement neither raises nor returns absent at once: it returns
\* the amount of the next pattern that yields a parsable numeral, and absent
\* only if none does
C7_UnparsableFallsThrough ==
    (Settled /\ text_data # None) =>
        /\ settlement # ValueError
        /\ \A k \in PatternIds :
              (/\ FirstMatchAmount(k, text_data.text) = ValueError
               /\ LowestParsed(1..(k - 1), text_data.text) = None)
              => settlement = LowestParsed((k + 1)..Len(PENALTY_PATTERNS),
                                           text_data.text)
        /\ text_data.text = ClauseCommas \o " " \o ClauseGeneric
              => settlement = Float(90000)
        /\ text_data.text = ClauseCommas => settlement = None

C7_Witness ==
    /\ text_data = TextData(ClauseCommas \o " " \o ClauseGeneric)
    /\ FirstMatchAmount(4, text_data.text) = ValueError
    /\ settlement = Float(90000)

NumeralChars == Digits \cup {",", "."}

\* the values of the complete numerals of text: the maximal runs of digits,
\* commas and periods that hold a digit
NumeralValues(text) ==
    LET starts == {i \in 1..Len(text) :
                      Ch(text, i) \in NumeralChars /\ Ch(text, i - 1) \notin NumeralChars}
        run(i) == SubSeq(text, i, i + RunLen(text, i, NumeralChars) - 1)
    IN  {float(replace(run(i), ",", "")) : i \in starts} \ {ValueError}

\* C8: a returned amount is the value of one complete numeral of the text;
\* absent or empty text, and text without a numeral, give absent; no value
\* comes from part of a numeral or from letters of prose
C8_AmountIsNumeralOfText ==
    Settled =>
        /\ TextOf(text_data) = "" => settlement = None
        /\ NumeralValues(TextOf(text_data)) = {} => settlement = None
        /\ settlement # None => settlement \in NumeralValues(TextOf(text_data))

\* the spans <<i, j>> of the dollar amounts of text with two or more digits:
\* a dollar sign and the run of digits, commas and periods after it
DollarAmounts(text) ==
    {<<i, i + RunLen(text, i + 1, NumeralChars)>> : i \in {j \in 1..Len(text) : Ch(text, j) = "$"}}

DigitCount(text, span) ==
    Cardinality({j \in span[1]..span[2] : Ch(text, j) \in Digits})

\* C9: every dollar amount with two or more digits is character for character
\* the same before and after _clean_ocr_text
C9_CleanupPreservesAmounts ==
    (cleaned # Pending) =>
        \A span \in DollarAmounts(text_data.text) :
            DigitCount(text_data.text, span) >= 2
            => SubSeq(cleaned.s, span[1], span[2])
                   = SubSeq(text_data.text, span[1], span[2])


-----------------------------------------------------------------------------
(* Claims about extract_from_pdf and _extract_with_ocr (Spec)              *)

Returned == pc = "done"
IsText(t) == t \notin {Pending, None}
\* len(t.strip()) of an optional string, 0 when there is none
TrimmedLen(t) == IF IsText(t) THEN Len(strip(t.s)) ELSE 0

\* C2: when structured extraction yields text of trimmed length over 200, the
\* OCR path is never entered (no temporary file, no rasterization) and the
\* text returned is the structured text itself, not cleaned
C2_StructuredTextShortCircuits ==
    TrimmedLen(pdfplumber_text) > 200 =>
        /\ ocr_calls = 0 /\ raster_calls = 0 /\ disk = {}
        /\ pc \in {"gate", "done"}
        /\ Returned => result = TextData(pdfplumber_text.s)

C2_Witness ==
    /\ Returned
    /\ TrimmedLen(pdfplumber_text) = 201
    /\ result = TextData(pdfplumber_text.s)
    /\ clean_ocr_text(result.text) # result.text
    /\ raster_calls = 0

\* C3: when the fetch succeeded and structured extraction gave text of trimmed
\* length at most 200, no text, or failed, _extract_with_ocr is called exactly
\* once in the call
C3_FallbackRunsOcrOnce ==
    /\ ocr_calls <= 1
    /\ (Returned /\ "get" \notin failed /\ TrimmedLen(pdfplumber_text) <= 200)
          => ocr_calls = 1

C3_Witness ==
    /\ Returned
    /\ pdfplumber_text = None
    /\ "pdfplumber" \in failed
    /\ ocr_calls = 1

\* C4 as stated: after any failure of a sub-step (the GET, rasterization, the
\* recognition of a page; bytes that are no document at all fail
\* rasterization too) extract_from_pdf returns None, never raises, and has
\* fetched at most once
C4_EveryFailureGivesNone ==
    (Returned /\ failed \cap {"get", "convert", "page"} # {})
        => (result = None /\ ~raised /\ fetches <= 1)

\* C4 amended: extract_from_pdf never raises and fetches at most once; a
\* failure of the GET, of the temporary file or of rasterization gives None; a
\* failure of the structured parse or of a page only drops that text, and the
\* result is then the cleaned OCR text if the text of the remaining pages has
\* trimmed length over 200, and None otherwise
C4_TotalAndContained ==
    /\ ~raised
    /\ fetches <= 1
    /\ Returned =>
        /\ result = None \/ result.tag = "dict"
        /\ failed \cap {"get", "tmpfile", "write", "convert"} # {} => result = None
        /\ (failed \cap {"pdfplumber", "page"} # {} /\ result # None)
              => /\ TrimmedLen(ocr_text) > 200
                 /\ ocr_text = Str(join("\n\n", pages_text))
                 /\ result = TextData(clean_ocr_text(ocr_text.s))
        /\ (failed \cap {"pdfplumber", "page"} # {} /\ result = None /\ IsText(ocr_text))
              => TrimmedLen(ocr_text) <= 200

C4_Witness ==
    /\ Returned
    /\ "page" \in failed
    /\ result # None
    /\ ~raised

\* C5: every temporary file _extract_with_ocr created is gone when it returns
\* (removal itself not failing), on every exit path
C5_TempFilesRemoved ==
    (pc \in {"ocr_gate", "done"} /\ "unlink" \notin failed) => disk = {}

\* C10: on the OCR path the result is the cleaned OCR text exactly when the
\* OCR text has trimmed length over 200, and None otherwise; so every result
\* that is not None carries text of trimmed length over 200
C10_OcrGate ==
    Returned =>
        /\ (ocr_calls = 1 /\ TrimmedLen(ocr_text) > 200)
              => result = TextData(clean_ocr_text(ocr_text.s))
        /\ (ocr_calls = 1 /\ TrimmedLen(ocr_text) <= 200) => result = None
        /\ result # None => Len(strip(result.text)) > 200

C10_Witness ==
    /\ Returned
    /\ ocr_calls = 1
    /\ TrimmedLen(ocr_text) = 201
    /\ result = TextData(clean_ocr_text(ocr_text.s))
    /\ result.text # ocr_text.s

-----------------------------------------------------------------------------
(* Claim about wrapped phrases (SpecWrap)                                  *)

\* C11: replacing a single space between two words of a pattern's phrase
\* by a newline or by several whitespace characters leaves the amount
\* returned by extract_settlement unchanged
C11_WrappedPhraseSameAmount ==
    (settlement # Pending /\ wrapped_settlement # Pending)
        => wrapped_settlement = settlement

-----------------------------------------------------------------------------
(* Claim about the page loop of _extract_with_ocr (Spec)                   *)

\* _extract_with_ocr has returned to extract_from_pdf
OcrReturned == pc \in {"ocr_gate", "done"} /\ ocr_calls = 1 /\ ocr_text # Pending

\* convert_from_path gave the page images, so the page loop ran
Rasterised == raster_calls = 1 /\ "convert" \notin failed

\* the outputs of the pages that produced non-empty text, in page order
ProducedText(o) == o.tag = "str" /\ strip(o.s) # ""
Produced == SelectSeq(page_out, ProducedText)

RECURSIVE BlankLineJoined(_)
\* the page outputs of a non-empty list, a blank line between neighbours
BlankLineJoined(outs) ==
    IF Len(outs) = 1 THEN outs[1].s
    ELSE BlankLineJoined(SubSeq(outs, 1, Len(outs) - 1))
             \o "\n" \o "\n" \o outs[Len(outs)].s

\* C12: a page whose recognition raises or yields only whitespace is skipped
\* without aborting the document: the loop is left only when every page has
\* been handled, the text _extract_with_ocr returns is the outputs of
\* exactly the pages that produced non-empty text, joined by a blank line in
\* increasing page order, and the result is None only when no page produced
\* text
C12_PagesSkippedNotAborted ==
    /\ (pc = "ocr_page" /\ page_i < images) => ocr_exit = "none"
    /\ (OcrReturned /\ Rasterised) =>
          /\ Len(page_out) = images
          /\ page_i = images
          /\ ocr_text = IF Produced = <<>> THEN None
                        ELSE Str(BlankLineJoined(Produced))
    /\ (OcrReturned /\ ocr_text = None) => Produced = <<>>

\* the first page raised, the second page was still recognised and its text
\* is what _extract_with_ocr returned
C12_Witness ==
    /\ OcrReturned
    /\ Len(page_out) = 2
    /\ page_out[1] = PageError
    /\ ProducedText(page_out[2])
    /\ ocr_text = Str(page_out[2].s)


====
